---------------------------- MODULE Spec2Model ----------------------------
(***************************************************************************)
(* Streaming CSV cleaning and cross-chunk deduplication                    *)
(* (src/Extract/Clean/Clean.py: normalize_column_name, clean_chunk,        *)
(* clean_csv, main; the toggles of src/Config/Config.py).                  *)
(*                                                                         *)
(* Spec is a run, entered through main or clean_csv, on an input file that *)
(* exists and with a file system that does not fail; SpecFaults adds the   *)
(* missing input file and the to_csv call that raises; SpecConfig runs     *)
(* under either value of DROP_DUPLICATES; SpecNormalize calls              *)
(* normalize_column_name on header strings; SpecLoad is a call of          *)
(* DataLoader.save_to_csv_chunked (src/Load/Load.py); SpecLive is Spec     *)
(* with the loop of clean_csv taking its steps.                            *)
(*                                                                         *)
(* Text is modelled as sequences of one-character strings, so that strip,  *)
(* lower and replace are computed character by character.  A raw CSV cell  *)
(* is such a text; a DataFrame cell is a record [t, v]: t is the Python    *)
(* type of the value ("str", "int", "float", "ts" for Timestamp, "nan" for *)
(* float NaN, "NA" for pd.NA, "NaT") and v its text (<<>> when missing).   *)
(*                                                                         *)
(* Library behaviour is that of pandas 1.x/2.x on CPython: text columns    *)
(* are of object dtype, read_csv infers each column's dtype chunk by       *)
(* chunk, hash(-1) = hash(-2) = -2, and the hash of a float NaN is the     *)
(* address of its object (CPython 3.10 and later; a constant before, which *)
(* is the case of all addresses equal).                                    *)
(***************************************************************************)
EXTENDS Integers, Sequences, FiniteSets, TLC

(***************************************************************************)
(* Bounds of the model.                                                    *)
(***************************************************************************)
\* Largest number of data rows of the input file.
MaxRows == 3

\* Largest chunk_size argument.
MaxChunk == 3

\* Number of distinct addresses a float NaN object may be hashed at.
NanAddrs == 2

\* Largest length of a header string given to normalize_column_name.
MaxName == 4

(***************************************************************************)
(* Text helpers (Python str methods).                                      *)
(***************************************************************************)
\* Characters str.strip() removes.
Whitespace == {" ", "\n", "\t"}

\* The sequence f as an explicit tuple.
Tup(f) == <<>> \o f

RECURSIVE LStrip(_)
LStrip(s) ==
    IF s # <<>> /\ Head(s) \in Whitespace THEN LStrip(Tail(s)) ELSE s

RECURSIVE RStrip(_)
RStrip(s) ==
    IF s # <<>> /\ s[Len(s)] \in Whitespace
    THEN RStrip(SubSeq(s, 1, Len(s) - 1))
    ELSE s

\* str.strip()
Strip(s) == RStrip(LStrip(s))

UpperLetters ==
    <<"A","B","C","D","E","F","G","H","I","J","K","L","M",
      "N","O","P","Q","R","S","T","U","V","W","X","Y","Z">>

LowerLetters ==
    <<"a","b","c","d","e","f","g","h","i","j","k","l","m",
      "n","o","p","q","r","s","t","u","v","w","x","y","z">>

LowerChar(c) ==
    IF \E i \in 1..26 : UpperLetters[i] = c
    THEN LowerLetters[CHOOSE i \in 1..26 : UpperLetters[i] = c]
    ELSE c

\* str.lower()
Lower(s) == Tup([i \in 1..Len(s) |-> LowerChar(s[i])])

\* str.replace(old, new) for one-character old and new.
Replace(s, old, new) ==
    Tup([i \in 1..Len(s) |-> IF s[i] = old THEN new ELSE s[i]])

\* Python's  sub in s  for texts.
Contains(s, sub) ==
    \E i \in 0..(Len(s) - Len(sub)) : SubSeq(s, i + 1, i + Len(sub)) = sub

Digits == {"0","1","2","3","4","5","6","7","8","9"}

(***************************************************************************)
(* normalize_column_name                                                   *)
(***************************************************************************)
\* Mutant of normalize_column_name: a line break becomes a space.
normalize_column_name_NewlineToSpace(name) ==
    Replace(Replace(Lower(Strip(name)), " ", "_"), "\n", " ")

normalize_column_name(name) ==
    Replace(Replace(Lower(Strip(name)), " ", "_"), "\n", "_")

(***************************************************************************)
(* Configuration constants (Config.py).                                    *)
(***************************************************************************)
NULL_VALUES ==
    { <<>>, <<"n","a","n">>, <<"N","a","N">>, <<"N","A">>, <<"N","/","A">>,
      <<"n","u","l","l">>, <<"N","U","L","L">>, <<"N","o","n","e">> }

\* The columns Config.py names as the key of a duplicate.
DUPLICATE_SUBSET ==
    { <<"d","a","t","e">>, <<"c","o","u","n","t","y">>, <<"s","t","a","t","e">> }


(***************************************************************************)
(* The input file: its header line and the vocabulary of its data rows.    *)
(***************************************************************************)
\* Header of the input CSV as it stands in the file.
RawHeader ==
    << <<"D","a","t","e">>,
       <<" ","C","o","u","n","t","y">>,
       <<"N","e","w"," ","C","a","s","e","s">>,
       <<"S","t","a","t","e">> >>

NCols == Len(RawHeader)

DateOk   == <<"2","0","2","1","-","0","1","-","0","1">>
DateBad  == <<"b","a","d">>
Empty    == <<>>
Blank    == <<" ">>
TxtA     == <<"A">>
TxtApad  == <<" ","A">>
TxtNApad == <<" ","N","A"," ">>
NumM1    == <<"-","1">>
NumM2    == <<"-","2">>
TxtS     == <<"S">>

\* Data rows an input file is made of.
RowPool ==
    { <<DateOk,  TxtA,     NumM1, TxtS>>,
      <<DateOk,  TxtA,     NumM2, TxtS>>,
      <<DateOk,  TxtApad,  Empty, TxtS>>,
      <<DateOk,  TxtA,     Blank, TxtS>>,
      <<DateBad, Empty,    Blank, Empty>>,
      <<DateBad, TxtNApad, NumM1, TxtS>> }

RECURSIVE SeqsUpTo(_, _)
SeqsUpTo(S, n) ==
    IF n = 0 THEN { <<>> }
    ELSE LET shorter == SeqsUpTo(S, n - 1)
         IN  shorter \cup { Append(q, x) : q \in { p \in shorter : Len(p) = n - 1 }, x \in S }

\* Content of a pre-existing output file, as an earlier run on the row
\* 2021-01-01,A,-2,S left it: the header line and one data line.
OldFile ==
    << << <<"d","a","t","e">>, <<"c","o","u","n","t","y">>,
          <<"n","e","w","_","c","a","s","e","s">>, <<"s","t","a","t","e">> >>,
       << DateOk, TxtA, NumM2, TxtS >> >>

(***************************************************************************)
(* pd.read_csv(input_path, chunksize=chunk_size, low_memory=False): each   *)
(* chunk is parsed on its own, so a column's dtype is inferred from the    *)
(* cells of that chunk only.                                               *)
(***************************************************************************)
\* Cells the parser reads as NaN (pandas' default na_values, matched
\* against the cell as it stands, untrimmed).
ReadNaValues ==
    { <<>>, <<"n","a","n">>, <<"N","a","N">>, <<"N","A">>, <<"N","/","A">>,
      <<"n","u","l","l">>, <<"N","U","L","L">>, <<"N","o","n","e">>,
      <<"n","/","a">>, <<"<","N","A",">">>, <<"#","N","/","A">>, <<"#","N","A">> }

\* An integer literal; the parser skips blanks around a number.
IsIntLiteral(s) ==
    LET u == Strip(s)
        d == IF u # <<>> /\ Head(u) \in {"-", "+"} THEN Tail(u) ELSE u
    IN  d # <<>> /\ \A i \in 1..Len(d) : d[i] \in Digits

\* dtype inferred for column c of the chunk made of the raw rows (object
\* for the chunk without rows that a file with a header only gives).
ColDtype(rows, c) ==
    LET cells == { rows[i][c] : i \in 1..Len(rows) }
        given == cells \ ReadNaValues
    IN  IF rows = <<>> THEN "object"
        ELSE IF \A s \in given : IsIntLiteral(s)
        THEN IF cells \cap ReadNaValues = {} THEN "int64" ELSE "float64"
        ELSE "object"

NaN == [t |-> "nan", v |-> <<>>]
NA  == [t |-> "NA",  v |-> <<>>]
NaT == [t |-> "NaT", v |-> <<>>]

ParseCell(dtype, s) ==
    IF s \in ReadNaValues THEN NaN
    ELSE IF dtype = "int64"   THEN [t |-> "int",   v |-> Strip(s)]
    ELSE IF dtype = "float64" THEN [t |-> "float", v |-> Strip(s)]
    ELSE [t |-> "str", v |-> s]

\* A DataFrame: column names, column dtypes, rows of cells, and for every
\* row the position of the input row it was read from (its index label).
ParseChunk(rows, first, dtypes) ==
    [ columns |-> RawHeader,
      dtypes  |-> dtypes,
      rows    |-> Tup([i \in 1..Len(rows) |->
                     Tup([c \in 1..NCols |-> ParseCell(dtypes[c], rows[i][c])])]),
      index   |-> Tup([i \in 1..Len(rows) |-> first + i - 1]) ]

\* The chunk read from the raw rows, the first of them at position first.
ReadChunk(rows, first) ==
    ParseChunk(rows, first, Tup([c \in 1..NCols |-> ColDtype(rows, c)]))

(***************************************************************************)
(* clean_chunk                                                             *)
(***************************************************************************)
\* Series.astype(str) on an object column.
AsStr(cell) == IF cell.t = "nan" THEN <<"n","a","n">> ELSE cell.v

\* The tokens clean_chunk replaces by pd.NA.
CleanReplaced == { <<>>, <<"n","a","n">>, <<"N","o","n","e">> }

\* Step 1, one cell of an object column: astype(str), strip, replace.
CleanTextCell(cell) ==
    LET s == Strip(AsStr(cell))
    IN  IF s \in CleanReplaced THEN NA ELSE [t |-> "str", v |-> s]

\* A text pd.to_datetime parses: an ISO calendar date yyyy-mm-dd.
IsDateText(s) ==
    /\ Len(s) = 10
    /\ s[5] = "-" /\ s[8] = "-"
    /\ \A i \in {1, 2, 3, 4, 6, 7, 9, 10} : s[i] \in Digits

\* Mutant of ToDatetimeCell: errors="ignore", an unparsable text stays.
ToDatetimeCell_KeepsUnparsed(cell) ==
    IF cell.t \in {"nan", "NA", "NaT"} THEN NaT
    ELSE IF cell.t = "ts" THEN cell
    ELSE IF cell.t = "str"
         THEN IF IsDateText(cell.v) THEN [t |-> "ts", v |-> cell.v] ELSE cell
    ELSE [t |-> "ts", v |-> <<"e","p","o","c","h">> \o cell.v]

\* Step 2, one cell: pd.to_datetime(..., errors="coerce").
ToDatetimeCell(cell) ==
    IF cell.t \in {"nan", "NA", "NaT"} THEN NaT
    ELSE IF cell.t = "ts" THEN cell
    ELSE IF cell.t = "str"
         THEN IF IsDateText(cell.v) THEN [t |-> "ts", v |-> cell.v] ELSE NaT
    ELSE [t |-> "ts", v |-> <<"e","p","o","c","h">> \o cell.v]

IsDateColumn(name) == Contains(Lower(name), <<"d","a","t","e">>)

\* One cell through both steps: step 1 if its column is of object dtype,
\* then step 2 if its column is a date column.
CleanCell(dtype, isDate, cell) ==
    IF isDate
    THEN ToDatetimeCell(IF dtype = "object" THEN CleanTextCell(cell) ELSE cell)
    ELSE IF dtype = "object" THEN CleanTextCell(cell) ELSE cell

CleanColumns(df, isDate) ==
    [df EXCEPT
        !.rows = Tup([i \in 1..Len(df.rows) |->
                     Tup([c \in 1..NCols |->
                            CleanCell(df.dtypes[c], isDate[c], df.rows[i][c])])]),
        !.dtypes = Tup([c \in 1..NCols |->
                          IF isDate[c] THEN "datetime64" ELSE df.dtypes[c]])]

clean_chunk(df) ==
    CleanColumns(df, Tup([c \in 1..NCols |-> IsDateColumn(df.columns[c])]))

(***************************************************************************)
(* DataFrame.dropna(how="all"), DataFrame.drop_duplicates()                *)
(***************************************************************************)
IsMissing(cell) == cell.t \in {"nan", "NA", "NaT"}

\* The positions at which the boolean mask holds, in order.
RECURSIVE MaskPositions(_, _)
MaskPositions(mask, i) ==
    IF i > Len(mask) THEN <<>>
    ELSE (IF mask[i] THEN <<i>> ELSE <<>>) \o MaskPositions(mask, i + 1)

\* The rows of df at the positions at, with their index labels.
Take(df, at) ==
    [df EXCEPT !.rows  = Tup([k \in 1..Len(at) |-> df.rows[at[k]]]),
               !.index = Tup([k \in 1..Len(at) |-> df.index[at[k]]])]

\* df.loc[mask]: the rows at which the mask holds.
Select(df, mask) == Take(df, MaskPositions(mask, 1))

\* Mutant of dropna_all: no row is dropped.
dropna_all_Skipped(df) == df

dropna_all(df) ==
    Select(df, Tup([i \in 1..Len(df.rows) |->
                      \E c \in 1..NCols : ~IsMissing(df.rows[i][c])]))

\* Mutant of drop_duplicates: keep="last".
drop_duplicates_KeepLast(df) ==
    Select(df, Tup([i \in 1..Len(df.rows) |->
                      \A j \in (i + 1)..Len(df.rows) : df.rows[j] # df.rows[i]]))

\* keep="first": a row goes when an earlier row of the frame equals it
\* (missing values of a column compare equal).
drop_duplicates(df) ==
    Select(df, Tup([i \in 1..Len(df.rows) |->
                      \A j \in 1..(i - 1) : df.rows[j] # df.rows[i]]))

(***************************************************************************)
(* hash(tuple(row.values.tolist()))                                        *)
(***************************************************************************)
\* CPython's hash of one cell value.  hash(-1) is -2, and a float with an
\* integral value hashes as that integer.  A float NaN hashes by the
\* address of its object (CPython 3.10 and later), which is given here as
\* addr; pd.NA and NaT hash to constants.
ElemHash(cell, addr) ==
    IF cell.t \in {"int", "float"}
    THEN [k |-> "num", v |-> IF cell.v = <<"-","1">> THEN <<"-","2">> ELSE cell.v]
    ELSE IF cell.t = "nan" THEN [k |-> "nan", v |-> addr]
    ELSE [k |-> cell.t, v |-> cell.v]

\* The tuple hash, taken as collision-free in the hashes of its elements.
RowHash(row, addr) == Tup([c \in 1..NCols |-> ElemHash(row[c], addr)])

(***************************************************************************)
(* DataFrame.to_csv                                                        *)
(***************************************************************************)
FormatCell(cell) ==
    IF IsMissing(cell) THEN <<>>
    ELSE IF cell.t = "float" THEN cell.v \o <<".","0">>
    ELSE cell.v

FormatRows(df) ==
    Tup([i \in 1..Len(df.rows) |->
           Tup([c \in 1..NCols |-> FormatCell(df.rows[i][c])])])

\* to_csv(path, mode=mode, header=header, index=False) on the file f.
to_csv(f, df, mode, header) ==
    LET body == (IF header THEN <<df.columns>> ELSE <<>>) \o FormatRows(df)
    IN  [exists |-> TRUE,
         lines  |-> IF mode = "w" THEN body ELSE f.lines \o body]

(***************************************************************************)
(* State of one run: main(argv) or a direct call clean_csv(input_path,     *)
(* output_path, chunk_size, overwrite).                                    *)
(***************************************************************************)
VARIABLES
    input,        \* data rows of the input file, as raw cells
    chunk_size,   \* argument chunk_size (--chunksize)
    overwrite,    \* argument overwrite (--overwrite)
    out,          \* the file at output_path: [exists, lines]
    out0,         \* that file as it was when clean_csv was entered
    pc,           \* "main": in main, arguments parsed; "clean_csv": at the
                  \* entry of clean_csv; "loop": in the for loop; "done":
                  \* clean_csv returned; "raised": an exception left it
    pos,          \* number of input rows the chunk reader has delivered
    first_chunk,  \* local first_chunk
    seen_hashes,  \* local seen_hashes
    cleaned,      \* log of clean_chunk: the cleaned row of each input row read
    writes,       \* log of the to_csv calls that returned:
                  \* [mode, header, index, lines]
    input_exists, \* whether the file at input_path exists
    out_entry,    \* the file at output_path before the entry point ran
    raised,       \* the exception that left clean_csv, "none" if none
    torn,         \* the lines a to_csv call that raised had put in the file
    batches,      \* log of the loop iterations, one record per chunk read
    DROP_DUPLICATES,  \* Config.DROP_DUPLICATES
    entry,        \* the entry point of the run: "main" or "clean_csv"
    frame,        \* argument df of save_to_csv_chunked
    filepath,     \* the file at filepath of save_to_csv_chunked: [exists, lines]
    filepath0,    \* that file as it was before the call
    i_chunk,      \* number of chunks save_to_csv_chunked has written
    h,            \* header string on which normalize_column_name is called
    result        \* what normalize_column_name returned, call after call

vars ==
    <<input, chunk_size, overwrite, out, out0, pc, pos, first_chunk,
      seen_hashes, cleaned, writes, input_exists, out_entry, raised, torn,
      batches, DROP_DUPLICATES, entry, frame, filepath, filepath0, i_chunk,
      h, result>>

NoFile == [exists |-> FALSE, lines |-> <<>>]

\* The DataFrame without rows.
NoFrame == Take(ReadChunk(<<>>, 1), <<>>)

Min(a, b) == IF a < b THEN a ELSE b

DigitSeq == <<"0","1","2","3","4","5","6","7","8","9">>

\* The addresses a NaN object may have, as texts.
NanAddrSet == { <<"@", DigitSeq[i]>> : i \in 1..NanAddrs }

\* The arguments, the output path and the entry point of a run.
InitRun ==
    /\ chunk_size \in 1..MaxChunk
    /\ overwrite \in BOOLEAN
    /\ out \in { NoFile, [exists |-> TRUE, lines |-> OldFile] }
    /\ out0 = out
    /\ out_entry = out
    /\ entry \in { "main", "clean_csv" }
    /\ pc = entry
    /\ pos = 0
    /\ first_chunk = TRUE
    /\ seen_hashes = {}
    /\ cleaned = <<>>
    /\ writes = <<>>
    /\ raised = "none"
    /\ torn = <<>>
    /\ batches = <<>>
    /\ h = <<>>
    /\ result = <<>>
    /\ frame = NoFrame
    /\ filepath = NoFile
    /\ filepath0 = NoFile
    /\ i_chunk = 0

\* A run on an input file that exists, with Config.py as it stands
\* (DROP_DUPLICATES = True).
Init ==
    /\ input_exists = TRUE
    /\ input \in SeqsUpTo(RowPool, MaxRows)
    /\ DROP_DUPLICATES = TRUE
    /\ InitRun

\* The next chunk pd.read_csv yields: at most chunk_size rows from pos on.
NextChunk ==
    ReadChunk(SubSeq(input, pos + 1, Min(pos + chunk_size, Len(input))), pos + 1)

\* Lines 190-198: the chunk with its column names normalized.
Renamed(df) ==
    [df EXCEPT !.columns =
        Tup([c \in 1..NCols |-> normalize_column_name(df.columns[c])])]

\* Mutant of WriteCall: every append of the overwrite branch repeats the
\* header.
WriteCall_HeaderOnEveryAppend(f, ow) ==
    IF f.exists /\ ~ow THEN [mode |-> "a", header |-> FALSE]
    ELSE IF ~f.exists THEN [mode |-> "w", header |-> TRUE]
    ELSE [mode |-> "a", header |-> TRUE]

\* Mutant of WriteCall: the append branch opens the file in mode "w".
WriteCall_TruncatesExisting(f, ow) ==
    IF f.exists /\ ~ow THEN [mode |-> "w", header |-> FALSE]
    ELSE IF ~f.exists THEN [mode |-> "w", header |-> TRUE]
    ELSE [mode |-> "a", header |-> FALSE]

\* Mutant of WriteCall: every call opens the file in mode "w" and writes the
\* header.
WriteCall_RewritesFile(f, ow) == [mode |-> "w", header |-> TRUE]

\* Mutant of WriteCall: the header goes with the first chunk read, whatever
\* is written of it.
WriteCall_HeaderOfFirstChunk(f, ow) ==
    [mode |-> IF f.exists THEN "a" ELSE "w", header |-> first_chunk]

\* Lines 218-225: the to_csv call chosen for rows_to_write.
WriteCall(f, ow) ==
    IF f.exists /\ ~ow THEN [mode |-> "a", header |-> FALSE]
    ELSE IF ~f.exists THEN [mode |-> "w", header |-> TRUE]
    ELSE [mode |-> "a", header |-> FALSE]

\* Mutant of NewIndex: the index starts with the fingerprints of the rows
\* found in the output file.
NewIndex_FromOutputFile ==
    IF out.exists /\ Len(out.lines) > 1
    THEN LET old == clean_chunk(Renamed(ReadChunk(Tail(out.lines), 1)))
         IN  { RowHash(old.rows[i], <<>>) : i \in 1..Len(old.rows) }
    ELSE {}

\* Line 186: seen_hashes = set().
NewIndex == {}

\* Mutant of PartitionMask: the batch's fingerprints are inserted into the
\* index before the batch is partitioned against it.
PartitionMask_AfterInsert(hashes, seen) ==
    Tup([i \in 1..Len(hashes) |->
           hashes[i] \notin (seen \cup { hashes[j] : j \in 1..Len(hashes) })])

\* Line 211: mask = ~hashes.isin(seen_hashes).
PartitionMask(hashes, seen) ==
    Tup([i \in 1..Len(hashes) |-> hashes[i] \notin seen])

\* Mutant of AnyNew: to_csv is called for every batch.
AnyNew_Always(mask) == TRUE

\* Line 212: mask.any().
AnyNew(mask) == \E i \in 1..Len(mask) : mask[i]

\* Mutant of IndexUpdate: the index is replaced by the batch's fingerprints.
IndexUpdate_Replaces(seen, hashes_to_add) == hashes_to_add

\* Line 215: seen_hashes.update(hashes_to_add).
IndexUpdate(seen, hashes_to_add) == seen \cup hashes_to_add

\* Mutant of Main: the output file is never removed.
\* (main, lines 240-246: with --overwrite an existing output file is removed;
\* then clean_csv is called with the parsed arguments.)
Main_KeepsFile ==
    /\ pc = "main"
    /\ out' = out
    /\ pc' = "clean_csv"
    /\ UNCHANGED <<input, chunk_size, overwrite, out0, pos, first_chunk,
                   seen_hashes, cleaned, writes, input_exists, out_entry,
                   raised, torn, batches, DROP_DUPLICATES, entry,
                   frame, filepath, filepath0, i_chunk, h,
                   result>>

\* main, lines 240-246: with --overwrite an existing output file is removed;
\* then clean_csv is called with the parsed arguments.
Main ==
    /\ pc = "main"
    /\ out' = IF overwrite /\ out.exists THEN NoFile ELSE out
    /\ pc' = "clean_csv"
    /\ UNCHANGED <<input, chunk_size, overwrite, out0, pos, first_chunk,
                   seen_hashes, cleaned, writes, input_exists, out_entry,
                   raised, torn, batches, DROP_DUPLICATES, entry,
                   frame, filepath, filepath0, i_chunk, h,
                   result>>

\* clean_csv, lines 179-189: the locals are initialised and read_csv opens
\* the input file.  (makedirs creates the directory of output_path, never
\* the file.)
Enter ==
    /\ pc = "clean_csv"
    /\ input_exists
    /\ out0' = out
    /\ first_chunk' = TRUE
    /\ seen_hashes' = NewIndex
    /\ pc' = "loop"
    /\ UNCHANGED <<input, chunk_size, overwrite, out, pos, cleaned, writes,
                   input_exists, out_entry, raised, torn, batches,
                   DROP_DUPLICATES, entry,
                   frame, filepath, filepath0, i_chunk, h,
                   result>>

\* The record of one loop iteration: the input positions read, the index
\* the partition used, the rows left after the intra-batch steps with their
\* fingerprints, the rows handed to to_csv, and the length of the file
\* before and after.
BatchRecord(chunk, hashes, rows_to_write, f) ==
    [ first     |-> pos + 1,
      last      |-> Min(pos + chunk_size, Len(input)),
      seen      |-> seen_hashes,
      survivors |-> chunk.index,
      hashes    |-> hashes,
      written   |-> rows_to_write.index,
      before    |-> Len(out.lines),
      after     |-> Len(f.lines) ]

\* One iteration of the for loop of clean_csv.  (The quantifiers over
\* one-element sets name the values of the locals.)  The reader yields the
\* rows from pos on; for a file with a header and no data row it yields one
\* chunk without rows.
ProcessChunk ==
    /\ pc = "loop"
    /\ pos < Len(input) \/ first_chunk
    /\ \E cl \in { clean_chunk(Renamed(NextChunk)) } :
       \E chunk \in { drop_duplicates(dropna_all(cl)) } :
       LET n == Len(chunk.rows)
           withNaN == { i \in 1..n : \E c \in 1..NCols : chunk.rows[i][c].t = "nan" }
       IN  \E addrs \in [withNaN -> NanAddrSet] :
           \E hashes \in { Tup([i \in 1..n |->
                               RowHash(chunk.rows[i],
                                       IF i \in withNaN THEN addrs[i] ELSE <<>>)]) } :
           \E mask \in { PartitionMask(hashes, seen_hashes) } :
             /\ cleaned' = cleaned \o cl.rows
             /\ IF AnyNew(mask)
                THEN \E rows_to_write \in { Select(chunk, mask) } :
                     LET call == WriteCall(out, overwrite)
                     IN  /\ seen_hashes' = IndexUpdate(seen_hashes,
                                { hashes[i] : i \in { j \in 1..n : mask[j] } })
                         /\ out' = to_csv(out, rows_to_write, call.mode, call.header)
                         /\ writes' = Append(writes,
                                [mode   |-> call.mode,
                                 header |-> call.header,
                                 index  |-> rows_to_write.index,
                                 lines  |-> FormatRows(rows_to_write)])
                         /\ batches' = Append(batches,
                                BatchRecord(chunk, hashes, rows_to_write, out'))
                ELSE /\ batches' = Append(batches,
                                BatchRecord(chunk, hashes, Take(chunk, <<>>), out))
                     /\ UNCHANGED <<seen_hashes, out, writes>>
    /\ pos' = Min(pos + chunk_size, Len(input))
    /\ first_chunk' = FALSE
    /\ UNCHANGED <<input, chunk_size, overwrite, out0, pc, input_exists,
                   out_entry, raised, torn, DROP_DUPLICATES, entry,
                   frame, filepath, filepath0, i_chunk, h,
                   result>>

\* Mutant of Finish: the loop may end after any chunk, rows left unread.
Finish_AfterAnyChunk ==
    /\ pc = "loop"
    /\ ~first_chunk
    /\ pc' = "done"
    /\ UNCHANGED <<input, chunk_size, overwrite, out, out0, pos, first_chunk,
                   seen_hashes, cleaned, writes, input_exists, out_entry,
                   raised, torn, batches, DROP_DUPLICATES, entry,
                   frame, filepath, filepath0, i_chunk, h,
                   result>>

\* The reader is exhausted: the loop ends and clean_csv returns.
Finish ==
    /\ pc = "loop"
    /\ pos = Len(input)
    /\ ~first_chunk
    /\ pc' = "done"
    /\ UNCHANGED <<input, chunk_size, overwrite, out, out0, pos, first_chunk,
                   seen_hashes, cleaned, writes, input_exists, out_entry,
                   raised, torn, batches, DROP_DUPLICATES, entry,
                   frame, filepath, filepath0, i_chunk, h,
                   result>>

Next == Main \/ Enter \/ ProcessChunk \/ Finish

Spec == Init /\ [][Next]_vars

\* What an iteration of the for loop does to the reader (line 189 and lines
\* 190-198): ProcessChunk seen on pos and first_chunk alone.
ReadNext ==
    /\ pc = "loop"
    /\ pos < Len(input) \/ first_chunk
    /\ pos' = Min(pos + chunk_size, Len(input))
    /\ first_chunk' = FALSE

\* The run is sequential code on one thread: main calls clean_csv, the for
\* loop asks the reader for the next chunk and runs its body, and the
\* function returns when the reader is exhausted.  No step waits for
\* another process, so a step that can be taken is taken.  (The body of the
\* loop is total, so an iteration is enabled exactly when ReadNext is.)
SpecLive ==
    /\ Init
    /\ [][Next]_vars
    /\ WF_vars(Main)
    /\ WF_vars(Enter)
    /\ WF_<<pos, first_chunk>>(ReadNext)
    /\ WF_vars(Finish)

(***************************************************************************)
(* Runs in which the file system fails: the input file is missing, or a    *)
(* to_csv call raises (disk full, permission revoked).                     *)
(***************************************************************************)
\* What a to_csv call that raises may leave at output_path: the file as it
\* was (it could not be opened), or the file opened in the call's mode with
\* any number of the lines of the call flushed to it.
to_csv_raises(f, df, mode, header) ==
    LET body == (IF header THEN <<df.columns>> ELSE <<>>) \o FormatRows(df)
        base == IF mode = "w" THEN <<>> ELSE f.lines
    IN  { [file |-> f, torn |-> <<>>] } \cup
        { [file |-> [exists |-> TRUE, lines |-> base \o SubSeq(body, 1, k)],
           torn |-> SubSeq(body, 1, k)] : k \in 0..Len(body) }

\* Mutant of WriteErrorOutcome: the error is swallowed and the loop goes on.
WriteErrorOutcome_Swallowed == "loop"

\* Lines 189-225 have no try: an exception raised by to_csv leaves clean_csv.
WriteErrorOutcome == "raised"

\* clean_csv, lines 179-189, when input_path does not exist: read_csv raises
\* FileNotFoundError before the loop is entered.
InputMissing ==
    /\ pc = "clean_csv"
    /\ ~input_exists
    /\ out0' = out
    /\ first_chunk' = TRUE
    /\ seen_hashes' = NewIndex
    /\ raised' = "FileNotFoundError"
    /\ pc' = "raised"
    /\ UNCHANGED <<input, chunk_size, overwrite, out, pos, cleaned, writes,
                   input_exists, out_entry, torn, batches, DROP_DUPLICATES, entry,
                   frame, filepath, filepath0, i_chunk, h,
                   result>>

\* One iteration of the for loop in which the to_csv call raises.
WriteFails ==
    /\ pc = "loop"
    /\ pos < Len(input)
    /\ \E cl \in { clean_chunk(Renamed(NextChunk)) } :
       \E chunk \in { drop_duplicates(dropna_all(cl)) } :
       LET n == Len(chunk.rows)
           withNaN == { i \in 1..n : \E c \in 1..NCols : chunk.rows[i][c].t = "nan" }
       IN  \E addrs \in [withNaN -> NanAddrSet] :
           \E hashes \in { Tup([i \in 1..n |->
                               RowHash(chunk.rows[i],
                                       IF i \in withNaN THEN addrs[i] ELSE <<>>)]) } :
           \E mask \in { PartitionMask(hashes, seen_hashes) } :
             /\ AnyNew(mask)
             /\ cleaned' = cleaned \o cl.rows
             /\ \E rows_to_write \in { Select(chunk, mask) } :
                LET call == WriteCall(out, overwrite)
                IN  \E left \in to_csv_raises(out, rows_to_write, call.mode, call.header) :
                      /\ seen_hashes' = IndexUpdate(seen_hashes,
                             { hashes[i] : i \in { j \in 1..n : mask[j] } })
                      /\ out' = left.file
                      /\ torn' = left.torn
                      /\ batches' = Append(batches,
                             BatchRecord(chunk, hashes, rows_to_write, left.file))
    /\ pos' = Min(pos + chunk_size, Len(input))
    /\ first_chunk' = FALSE
    /\ raised' = "OSError"
    /\ pc' = WriteErrorOutcome
    /\ UNCHANGED <<input, chunk_size, overwrite, out0, writes, input_exists,
                   out_entry, DROP_DUPLICATES, entry,
                   frame, filepath, filepath0, i_chunk, h,
                   result>>

InitFaults ==
    /\ input_exists \in BOOLEAN
    /\ input \in IF input_exists THEN SeqsUpTo(RowPool, MaxRows) ELSE { <<>> }
    /\ DROP_DUPLICATES = TRUE
    /\ InitRun

NextFaults == Next \/ InputMissing \/ WriteFails

SpecFaults == InitFaults /\ [][NextFaults]_vars

(***************************************************************************)
(* Runs under either value of the configuration toggle of Config.py.       *)
(***************************************************************************)
InitConfig ==
    /\ input_exists = TRUE
    /\ input \in SeqsUpTo(RowPool, MaxRows)
    /\ DROP_DUPLICATES \in BOOLEAN
    /\ InitRun

SpecConfig == InitConfig /\ [][Next]_vars

(***************************************************************************)
(* normalize_column_name called on a header string, then on what it        *)
(* returned.                                                               *)
(***************************************************************************)
\* The characters header strings are made of: blanks, a line break, a tab,
\* an upper-case and a lower-case letter, an underscore.
NameChars == { " ", "\n", "\t", "A", "b", "_" }

InitNormalize ==
    /\ h \in SeqsUpTo(NameChars, MaxName)
    /\ result = <<>>
    /\ input_exists = FALSE
    /\ input = <<>>
    /\ DROP_DUPLICATES = TRUE
    /\ chunk_size = 1
    /\ overwrite = FALSE
    /\ out = NoFile
    /\ out0 = NoFile
    /\ out_entry = NoFile
    /\ entry = "normalize_column_name"
    /\ pc = "normalize_column_name"
    /\ frame = NoFrame
    /\ filepath = NoFile
    /\ filepath0 = NoFile
    /\ i_chunk = 0
    /\ pos = 0
    /\ first_chunk = TRUE
    /\ seen_hashes = {}
    /\ cleaned = <<>>
    /\ writes = <<>>
    /\ raised = "none"
    /\ torn = <<>>
    /\ batches = <<>>

\* A call of normalize_column_name: on the header string, then on the
\* value the call before returned.
Normalize ==
    /\ pc = "normalize_column_name"
    /\ Len(result) < 2
    /\ result' = Append(result,
           normalize_column_name(IF result = <<>> THEN h ELSE result[Len(result)]))
    /\ UNCHANGED <<input, chunk_size, overwrite, out, out0, pc, pos, first_chunk,
                   seen_hashes, cleaned, writes, input_exists, out_entry,
                   raised, torn, batches, DROP_DUPLICATES, entry,
                   frame, filepath, filepath0, i_chunk, h>>

SpecNormalize == InitNormalize /\ [][Normalize]_vars

(***************************************************************************)
(* DataLoader.save_to_csv_chunked (src/Load/Load.py, lines 64-98), called  *)
(* with index=False, its default.  frame is the argument df, filepath the  *)
(* file at output_dir / filename, i_chunk the counter of enumerate.        *)
(***************************************************************************)
\* Config.py, line 65.
CHUNK_SIZE == 100000

\* Line 81: chunk_size or CHUNK_SIZE (None and 0 are falsy).
EffectiveChunkSize(n) == IF n = 0 THEN CHUNK_SIZE ELSE n

\* The DataFrames of the calls: the input files read whole.
DataFrames == { ReadChunk(rows, 1) : rows \in SeqsUpTo(RowPool, MaxRows) }

\* A call with a DataFrame, a chunk size (0 for the default None) and a
\* target path that may hold a file.
InitLoad ==
    /\ frame \in DataFrames
    /\ chunk_size \in 0..MaxChunk
    /\ filepath \in { NoFile, [exists |-> TRUE, lines |-> OldFile] }
    /\ filepath0 = filepath
    /\ i_chunk = 0
    /\ entry = "save_to_csv_chunked"
    /\ pc = "save_loop"
    /\ raised = "none"
    /\ input_exists = FALSE
    /\ input = <<>>
    /\ DROP_DUPLICATES = TRUE
    /\ overwrite = FALSE
    /\ out = NoFile
    /\ out0 = NoFile
    /\ out_entry = NoFile
    /\ pos = 0
    /\ first_chunk = TRUE
    /\ seen_hashes = {}
    /\ cleaned = <<>>
    /\ writes = <<>>
    /\ torn = <<>>
    /\ batches = <<>>
    /\ h = <<>>
    /\ result = <<>>

\* Line 90: df.iloc[start:start + chunk_size].
SliceAt(df, start, size) ==
    Take(df, Tup([k \in 1..(Min(start + size, Len(df.rows)) - start) |-> start + k]))

\* Lines 89-94, one iteration of the loop over range(0, len(df), chunk_size):
\* the first chunk is written in mode 'w' with the header, the others are
\* appended without it.
SaveChunk ==
    /\ pc = "save_loop"
    /\ i_chunk * EffectiveChunkSize(chunk_size) < Len(frame.rows)
    /\ \E chunk \in { SliceAt(frame, i_chunk * EffectiveChunkSize(chunk_size),
                              EffectiveChunkSize(chunk_size)) } :
           filepath' = to_csv(filepath, chunk,
                              IF i_chunk = 0 THEN "w" ELSE "a", i_chunk = 0)
    /\ i_chunk' = i_chunk + 1
    /\ UNCHANGED <<input, chunk_size, overwrite, out, out0, pc, pos, first_chunk,
                   seen_hashes, cleaned, writes, input_exists, out_entry,
                   raised, torn, batches, DROP_DUPLICATES, entry,
                   frame, filepath0, h, result>>

\* Lines 96-98, after the loop: filepath.stat() raises FileNotFoundError
\* when no file is at the path; otherwise the path is returned.
SaveReturn ==
    /\ pc = "save_loop"
    /\ i_chunk * EffectiveChunkSize(chunk_size) >= Len(frame.rows)
    /\ IF filepath.exists
       THEN pc' = "save_done" /\ raised' = "none"
       ELSE pc' = "raised" /\ raised' = "FileNotFoundError"
    /\ UNCHANGED <<input, chunk_size, overwrite, out, out0, pos, first_chunk,
                   seen_hashes, cleaned, writes, input_exists, out_entry,
                   torn, batches, DROP_DUPLICATES, entry,
                   frame, filepath, filepath0, i_chunk, h, result>>

NextLoad == SaveChunk \/ SaveReturn

SpecLoad == InitLoad /\ [][NextLoad]_vars

(***************************************************************************)
(* Vocabulary of the properties.                                           *)
(***************************************************************************)
\* The header line clean_csv writes: the canonical column names.
NormHeader == Tup([c \in 1..NCols |-> normalize_column_name(RawHeader[c])])

RECURSIVE ConcatIndex(_, _)
ConcatIndex(w, k) ==
    IF k > Len(w) THEN <<>> ELSE w[k].index \o ConcatIndex(w, k + 1)

RECURSIVE ConcatLines(_, _)
ConcatLines(w, k) ==
    IF k > Len(w) THEN <<>> ELSE w[k].lines \o ConcatLines(w, k + 1)

\* Input positions of the rows written so far, in the order written.
WrittenIndex == ConcatIndex(writes, 1)

\* The data lines written so far, in the order written.
WrittenLines == ConcatLines(writes, 1)

Missing == [missing |-> TRUE, v |-> <<>>]

\* A raw cell trimmed, a token of the null vocabulary read as missing.
TrimNullCell(s) ==
    IF Strip(s) \in NULL_VALUES THEN Missing ELSE [missing |-> FALSE, v |-> Strip(s)]

TrimNullRow(r) == Tup([c \in 1..NCols |-> TrimNullCell(r[c])])

\* The content of a raw row after cleaning, as the specification defines
\* cleaning: trimmed, null tokens missing, unparsable dates missing.
CanonCell(name, s) ==
    IF IsDateColumn(normalize_column_name(name)) /\ ~IsDateText(Strip(s))
    THEN Missing
    ELSE TrimNullCell(s)

CanonRow(r) == Tup([c \in 1..NCols |-> CanonCell(RawHeader[c], r[c])])

CanonAllMissing(r) == \A c \in 1..NCols : CanonRow(r)[c].missing

\* Canonical rows of the whole input.
CanonInput == Tup([i \in 1..Len(input) |-> CanonRow(input[i])])

FormatRow(row) == Tup([c \in 1..NCols |-> FormatCell(row[c])])

Fresh == ~out0.exists

(***************************************************************************)
(* C1.  Global dedup: after one run into a fresh output path, every row    *)
(* content (equal after cleaning, not all-missing) that occurs K >= 1      *)
(* times in the input, in whatever batches, has exactly one copy among the *)
(* rows written, for every batch size.                                     *)
(***************************************************************************)
C1_GlobalDedup ==
    (pc = "done" /\ Fresh) =>
        \A canon \in { CanonInput } : \A W \in { WrittenIndex } :
        \A i \in 1..Len(input) :
            (\E c \in 1..NCols : ~canon[i][c].missing) =>
                Cardinality({ k \in 1..Len(W) : canon[W[k]] = canon[i] }) = 1

C3_OverwriteDeletesExisting ==
    (out0.exists /\ overwrite /\ writes # <<>>) =>
        out.lines = <<NormHeader>> \o WrittenLines

(***************************************************************************)
(* C4.  No row is dropped as a duplicate of a row with different content:  *)
(* at the end of the run, every input row that is not all-missing and      *)
(* whose cleaned content differs from that of every earlier input row has  *)
(* been written.                                                           *)
(***************************************************************************)
C4_NoFalseDuplicate ==
    pc = "done" =>
        \A canon \in { CanonInput } : \A W \in { WrittenIndex } :
        \A i \in 1..Len(input) :
            ( /\ \E c \in 1..NCols : ~canon[i][c].missing
              /\ \A j \in 1..(i - 1) : canon[j] # canon[i] )
            => \E k \in 1..Len(W) : W[k] = i

\* Input positions of the rows clean_csv writes when the whole input is one
\* chunk.
OneBatchIndex ==
    drop_duplicates(dropna_all(clean_chunk(Renamed(ReadChunk(input, 1))))).index

(***************************************************************************)
(* C5.  The output does not depend on the batch size: after a run into a   *)
(* fresh path, the input rows written, in the order written, are those     *)
(* that processing the whole input as one batch writes (all-missing rows   *)
(* removed, first occurrence of each distinct row kept, input order).      *)
(***************************************************************************)
C5_BatchSizeIndependent ==
    (pc = "done" /\ Fresh) => WrittenIndex = OneBatchIndex

(***************************************************************************)
(* C6.  With overwrite=False and an existing output file, the existing     *)
(* content stays as a prefix, the run writes no header, and the rows the   *)
(* run writes follow the existing content, in the order written.           *)
(***************************************************************************)
C6_AppendKeepsExisting ==
    (out0.exists /\ ~overwrite) =>
        /\ out.exists
        /\ out.lines = out0.lines \o WrittenLines
        /\ \A k \in 1..Len(writes) : ~writes[k].header

\* A finished run that appended two batches to an existing file.
C6_Witness ==
    pc = "done" /\ out0.exists /\ ~overwrite /\ Len(writes) >= 2

(***************************************************************************)
(* C7.  Null canonicalization: every cell whose trimmed text is in         *)
(* NULL_VALUES is the missing marker after clean_chunk.                    *)
(***************************************************************************)
C7_NullCanonicalization ==
    \A i \in 1..Len(cleaned) : \A c \in 1..NCols :
        Strip(input[i][c]) \in NULL_VALUES => IsMissing(cleaned[i][c])

(***************************************************************************)
(* C8.  Row-drop rule: after a run into a fresh path, a row that is the    *)
(* missing marker in every column after cleaning is not in the output, and *)
(* a row that is the missing marker in some columns only is in the output  *)
(* exactly once.                                                           *)
(***************************************************************************)
C8_RowDropRule ==
    (pc = "done" /\ Fresh) =>
        \A W \in { WrittenIndex } : \A L \in { WrittenLines } :
        \A i \in 1..Len(cleaned) :
            /\ (\A c \in 1..NCols : IsMissing(cleaned[i][c]))
                   => \A k \in 1..Len(W) : W[k] # i
            /\ ( /\ \E c \in 1..NCols : IsMissing(cleaned[i][c])
                 /\ \E c \in 1..NCols : ~IsMissing(cleaned[i][c]) )
                   => Cardinality({ k \in 1..Len(L) : L[k] = FormatRow(cleaned[i]) }) = 1

(***************************************************************************)
(* C9.  Deduplication is decided on cleaned values: of input rows that     *)
(* differ only in leading/trailing whitespace or in the null token that    *)
(* spells a missing cell, one run into a fresh path writes a single row,   *)
(* whether they meet in one batch or in different batches.                 *)
(***************************************************************************)
C9_DedupOnCleanedValues ==
    (pc = "done" /\ Fresh) =>
        \A W \in { WrittenIndex } :
        \A i \in 1..Len(input) : \A j \in (i + 1)..Len(input) :
            ( /\ input[i] # input[j]
              /\ TrimNullRow(input[i]) = TrimNullRow(input[j])
              /\ ~CanonAllMissing(input[i]) )
            => Cardinality({ k \in 1..Len(W) :
                               TrimNullRow(input[W[k]]) = TrimNullRow(input[i]) }) = 1

\* The columns whose canonical name contains "date".
DateColumns == { c \in 1..NCols : IsDateColumn(NormHeader[c]) }

\* The raw row has a date cell that cannot be parsed.
DateFails(r) == \E c \in DateColumns : ~IsDateText(Strip(r[c]))

ExistingLines == IF out0.exists THEN out0.lines ELSE <<>>

\* The header line of this run, present once a write into a fresh path has
\* returned.
HeaderLines == IF ~out0.exists /\ writes # <<>> THEN <<NormHeader>> ELSE <<>>

(***************************************************************************)
(* C11.  A to_csv call that raises at batch k ends the run: the exception  *)
(* leaves clean_csv, the write is not repeated, no batch after k is read,  *)
(* cleaned or written, and the file still starts with what it held before  *)
(* the failed call (the existing content and the batches written before    *)
(* k), followed only by what the failed call had flushed.                  *)
(***************************************************************************)
C11_WriteFailureFatal ==
    raised = "OSError" =>
        /\ pc = "raised"
        /\ batches # <<>>
        /\ batches[Len(batches)].last = pos
        /\ Len(cleaned) = pos
        /\ Len(writes) =
              Cardinality({ k \in 1..(Len(batches) - 1) : batches[k].written # <<>> })
        /\ out.lines = ExistingLines \o HeaderLines \o WrittenLines \o torn

\* The second write of a run raised after flushing a part, with input rows
\* still unread.
C11_Witness ==
    /\ raised = "OSError"
    /\ Len(writes) = 1
    /\ torn # <<>>
    /\ pos < Len(input)

(***************************************************************************)
(* C12.  When the input file is missing, the error leaves the entry point  *)
(* (clean_csv, or main with or without --overwrite) and the output path is *)
(* as it was before the entry point ran: not created, deleted or modified. *)
(***************************************************************************)
C12_MissingInputLeavesOutput ==
    raised = "FileNotFoundError" => (pc = "raised" /\ out = out_entry)

\* The fingerprints of the rows a loop iteration handed to to_csv.
HashesWritten(b) ==
    { b.hashes[i] : i \in { j \in 1..Len(b.survivors) :
                              \E m \in 1..Len(b.written) : b.written[m] = b.survivors[j] } }

\* The fingerprints of the rows written by the first n iterations.
WrittenHashes(n) == UNION { HashesWritten(batches[k]) : k \in 1..n }

RECURSIVE ConcatWritten(_, _)
ConcatWritten(b, k) ==
    IF k > Len(b) THEN <<>> ELSE b[k].written \o ConcatWritten(b, k + 1)

\* Of the rows left in iteration b, in order, those whose fingerprint is
\* not in the index seen.
NewRows(b, seen) ==
    LET at == MaskPositions(Tup([i \in 1..Len(b.hashes) |-> b.hashes[i] \notin seen]), 1)
    IN  Tup([m \in 1..Len(at) |-> b.survivors[at[m]]])

(***************************************************************************)
(* C13.  Index invariant: at every batch boundary (before the first batch, *)
(* between two batches, after the last) seen_hashes is exactly the set of  *)
(* the fingerprints of the rows this run has written so far, and the index *)
(* at a boundary contains the index at every earlier boundary.             *)
(***************************************************************************)
C13_IndexInvariant ==
    pc \in { "loop", "done" } =>
        /\ ConcatWritten(batches, 1) = WrittenIndex
        /\ seen_hashes = WrittenHashes(Len(batches))
        /\ \A k \in 1..Len(batches) :
             /\ batches[k].seen = WrittenHashes(k - 1)
             /\ batches[k].seen \subseteq
                  (IF k < Len(batches) THEN batches[k + 1].seen ELSE seen_hashes)

\* A finished run of three batches: the first and the third were written,
\* the second added nothing, and the index holds two fingerprints.
C13_Witness ==
    /\ pc = "done"
    /\ Len(batches) = 3
    /\ batches[1].written # <<>>
    /\ batches[2].written = <<>>
    /\ batches[3].written # <<>>
    /\ Cardinality(seen_hashes) = 2

\* The number of distinct rows of the input after cleaning.
DistinctCleaned == Cardinality({ CanonInput[i] : i \in 1..Len(input) })

(***************************************************************************)
(* C14.  Bounded index: the fingerprint index never holds more entries     *)
(* than the input has distinct rows after cleaning.                        *)
(***************************************************************************)
C14_BoundedIndex ==
    seen_hashes # {} => Cardinality(seen_hashes) <= DistinctCleaned

(***************************************************************************)
(* C15.  The index is scoped to the run: the first batch of every call is  *)
(* partitioned against the empty index, so every row of it that is left    *)
(* after the intra-batch steps is written, whatever the output file        *)
(* already holds; and the rows every batch writes are those whose          *)
(* fingerprint no earlier batch of this run wrote.                         *)
(***************************************************************************)
C15_IndexScopedToRun ==
    /\ pc \in { "main", "clean_csv" } => seen_hashes = {}
    /\ pos = 0 => seen_hashes = {}
    /\ batches # <<>> =>
         /\ batches[1].seen = {}
         /\ batches[1].written = batches[1].survivors
    /\ \A k \in 1..Len(batches) :
         batches[k].written = NewRows(batches[k], WrittenHashes(k - 1))

\* A run appended to an existing file a row whose line the file already
\* held.
C15_Witness ==
    /\ out0.exists
    /\ writes # <<>>
    /\ \E i \in 1..Len(out0.lines) : writes[1].lines[1] = out0.lines[i]

(***************************************************************************)
(* C16.  Column-name normalization is idempotent: normalizing what         *)
(* normalize_column_name returned gives it back unchanged.                 *)
(***************************************************************************)
C16_NormalizeIdempotent ==
    Len(result) = 2 => result[2] = result[1]

\* Both calls were made on a header string with an outer blank, an inner
\* line break and an upper-case letter, which the first call changed.
C16_Witness ==
    /\ Len(result) = 2
    /\ h = <<" ", "A", "\n", "b">>
    /\ result[1] = <<"a", "_", "b">>

(***************************************************************************)
(* C17.  The toggle controls deduplication: with DROP_DUPLICATES off every *)
(* row that is not all-missing is written, duplicates included; with it on *)
(* no batch is written with the same row twice.                            *)
(***************************************************************************)
C17_ToggleControlsDedup ==
    pc = "done" =>
        IF DROP_DUPLICATES
        THEN \A k \in 1..Len(writes) :
             \A i \in 1..Len(writes[k].index) : \A j \in (i + 1)..Len(writes[k].index) :
                 cleaned[writes[k].index[i]] # cleaned[writes[k].index[j]]
        ELSE \A W \in { WrittenIndex } : \A i \in 1..Len(input) :
                 (\E c \in 1..NCols : ~IsMissing(cleaned[i][c]))
                     => \E k \in 1..Len(W) : W[k] = i

\* The columns of the input that Config.py names as the key of a duplicate.
KeyColumns == { c \in 1..NCols : NormHeader[c] \in DUPLICATE_SUBSET }

\* The cleaned content of the key columns of a raw row.
KeyOf(canon) == [c \in KeyColumns |-> canon[c]]

(***************************************************************************)
(* C18.  Duplicates are identified by date, county and state: of two input *)
(* rows that agree on these three columns after cleaning and differ in     *)
(* another column, at most one is written.                                 *)
(***************************************************************************)
C18_DuplicateKeyColumns ==
    pc = "done" =>
        \A canon \in { CanonInput } : \A W \in { WrittenIndex } :
        \A i \in 1..Len(W) : \A j \in (i + 1)..Len(W) :
            canon[W[i]] # canon[W[j]] => KeyOf(canon[W[i]]) # KeyOf(canon[W[j]])

\* The cleaned row at input position i is missing in every column.
AllMissing(i) == \A c \in 1..NCols : IsMissing(cleaned[i][c])

\* Of the input positions first..last, in order, those whose cleaned row is
\* not all-missing and equals the cleaned row of no earlier position of
\* first..last.
FirstOccurrences(first, last) ==
    LET mask == Tup([k \in 1..(last - first + 1) |->
                       /\ ~AllMissing(first + k - 1)
                       /\ \A j \in first..(first + k - 2) :
                            cleaned[j] # cleaned[first + k - 1]])
        at == MaskPositions(mask, 1)
    IN  Tup([m \in 1..Len(at) |-> first + at[m] - 1])

\* The number of lines iteration b added to the file: a header in front of
\* the rows when the path did not exist, and the rows.
LinesAdded(b) ==
    IF b.written = <<>> THEN 0
    ELSE Len(b.written) + (IF ~out0.exists /\ b.before = 0 THEN 1 ELSE 0)

(***************************************************************************)
(* C19.  Batches are processed one after another, each in the fixed order: *)
(* batch k is the rows after batch k-1; its cells are cleaned under the    *)
(* normalized header; all-missing rows, then intra-batch duplicates go;    *)
(* the fingerprints are those of the rows that are left; the rows are      *)
(* partitioned against the index built from all prior batches (the index   *)
(* before this batch's fingerprints are inserted); the new rows are        *)
(* appended; and batch k finds the file as the append of batch k-1 left    *)
(* it.                                                                     *)
(***************************************************************************)
C19_BatchOrder ==
    pc \in { "loop", "done" } =>
        /\ Len(cleaned) = pos
        /\ batches # <<>> => batches[Len(batches)].last = pos
        /\ \A k \in 1..Len(batches) : \A b \in { batches[k] } :
             /\ b.first = (IF k = 1 THEN 1 ELSE batches[k - 1].last + 1)
             /\ b.last = Min(b.first + chunk_size - 1, Len(input))
             /\ b.survivors = FirstOccurrences(b.first, b.last)
             /\ Len(b.hashes) = Len(b.survivors)
             /\ \A i \in 1..Len(b.hashes) :
                  \E addr \in NanAddrSet \cup { <<>> } :
                      b.hashes[i] = RowHash(cleaned[b.survivors[i]], addr)
             /\ b.seen = WrittenHashes(k - 1)
             /\ b.written = NewRows(b, b.seen)
             /\ b.before = (IF k = 1 THEN Len(ExistingLines) ELSE batches[k - 1].after)
             /\ b.after = b.before + LinesAdded(b)
        /\ Len(out.lines) = (IF batches = <<>> THEN Len(ExistingLines)
                             ELSE batches[Len(batches)].after)
        /\ \A c \in DateColumns : \A i \in 1..Len(cleaned) :
             cleaned[i][c].t \in { "ts", "NaT" }

\* A finished run of three batches into a fresh path: the first batch was
\* written under the header, the row of the second batch was left after the
\* intra-batch steps but its fingerprint was in the index of the first, and
\* the third batch was appended where the first had ended.
C19_Witness ==
    /\ pc = "done"
    /\ Len(batches) = 3
    /\ batches[1].after = 2
    /\ batches[2].survivors # <<>>
    /\ batches[2].written = <<>>
    /\ batches[3].before = 2
    /\ batches[3].after = 3

(***************************************************************************)
(* C20.  Within one batch, of rows that are exact duplicates only the      *)
(* first occurrence is left, the rows that are left keep their batch       *)
(* order, and the rows the batch appends to the file are in that order.    *)
(***************************************************************************)
C20_IntraBatchOrder ==
    pc \in { "loop", "done" } =>
        \A k \in 1..Len(batches) : \A b \in { batches[k] } :
            /\ \A i \in 1..Len(b.survivors) : \A j \in (i + 1)..Len(b.survivors) :
                 /\ b.survivors[i] < b.survivors[j]
                 /\ cleaned[b.survivors[i]] # cleaned[b.survivors[j]]
            /\ \A p \in b.first..b.last :
                 ~AllMissing(p) =>
                    \E i \in 1..Len(b.survivors) :
                        /\ b.survivors[i] <= p
                        /\ cleaned[b.survivors[i]] = cleaned[p]
            /\ \A p \in b.first..b.last : \A q \in (p + 1)..b.last :
                 input[p] = input[q] =>
                    \A i \in 1..Len(b.survivors) : b.survivors[i] # q
            /\ \A i \in 1..Len(b.written) : \A j \in (i + 1)..Len(b.written) :
                 b.written[i] < b.written[j]
            /\ \A m \in 1..Len(b.written) :
                 out.lines[b.after - Len(b.written) + m] = FormatRow(cleaned[b.written[m]])

\* A batch of three rows whose third row repeats the first: the first and
\* the second row were written, in this order.
C20_Witness ==
    /\ batches # <<>>
    /\ batches[1].last - batches[1].first = 2
    /\ input[1] = input[3]
    /\ input[1] # input[2]
    /\ batches[1].written = <<1, 2>>

\* The sequence a is a prefix of the sequence b.
IsPrefix(a, b) == Len(a) <= Len(b) /\ SubSeq(b, 1, Len(a)) = a

(***************************************************************************)
(* C21.  The output file is append-only during a run: every step of the    *)
(* loop leaves the file it found as a prefix of the file it leaves, and at *)
(* every batch boundary the file is the content found at entry, then the   *)
(* header if this run wrote one, then the rows of whole batches.           *)
(***************************************************************************)
C21_AppendOnly ==
    /\ [](pc \in { "loop", "done" } =>
            out.lines = ExistingLines \o HeaderLines \o WrittenLines)
    /\ [][pc = "loop" =>
            /\ IsPrefix(out.lines, out'.lines)
            /\ out.exists => out'.exists]_vars

\* A finished run into a fresh path whose second and third batch were
\* appended behind the first.
C21_Witness ==
    /\ pc = "done"
    /\ ~out0.exists
    /\ Len(writes) = 3
    /\ Len(out.lines) = 4

(***************************************************************************)
(* C22.  In a run into a fresh path, the first batch that has a row to     *)
(* write, however many batches without one came before it, finds no file   *)
(* and writes the header line immediately before its first row; the file   *)
(* has this one header line.                                               *)
(***************************************************************************)
C22_HeaderWithFirstWrite ==
    \A k \in 1..Len(batches) :
        ( /\ ~out0.exists
          /\ batches[k].written # <<>>
          /\ \A j \in 1..(k - 1) : batches[j].written = <<>> )
        => /\ batches[k].before = 0
           /\ out.lines[1] = NormHeader
           /\ out.lines[2] = FormatRow(cleaned[batches[k].written[1]])
           /\ Cardinality({ i \in 1..Len(out.lines) : out.lines[i] = NormHeader }) = 1

\* A finished run into a fresh path whose first two batches had no row to
\* write and whose third batch wrote the header and a row.
C22_Witness ==
    /\ pc = "done"
    /\ ~out0.exists
    /\ Len(batches) = 3
    /\ batches[1].written = <<>>
    /\ batches[2].written = <<>>
    /\ batches[3].written # <<>>
    /\ out.lines[1] = NormHeader
    /\ Len(out.lines) = 2

\* Iteration b has no new row: every row that is left after the intra-batch
\* steps (none, when every row is all-missing) has its fingerprint in the
\* index.
NoNewRow(b) == \A i \in 1..Len(b.hashes) : b.hashes[i] \in b.seen

(***************************************************************************)
(* C23.  A batch that contributes no new row leaves the output file and    *)
(* the fingerprint index as they were, and the loop goes on.               *)
(***************************************************************************)
C23_NoOpBatch ==
    [][ ( /\ Len(batches') = Len(batches) + 1
          /\ NoNewRow(batches'[Len(batches')]) )
        => /\ out' = out
           /\ seen_hashes' = seen_hashes
           /\ pc' = "loop"
           /\ raised' = "none" ]_vars

\* A finished run of three batches: the first held an all-missing row, the
\* second was written, the third held a row whose fingerprint was in the
\* index; the file holds the header and the row of the second batch.
C23_Witness ==
    /\ pc = "done"
    /\ ~out0.exists
    /\ Len(batches) = 3
    /\ batches[1].survivors = <<>>
    /\ batches[2].written # <<>>
    /\ batches[3].survivors # <<>>
    /\ batches[3].written = <<>>
    /\ Len(out.lines) = 2
    /\ Cardinality(seen_hashes) = 1

(***************************************************************************)
(* C24.  When no row of the input survives cleaning (every cleaned row is  *)
(* all-missing, or the input has no data row), a run into a fresh path     *)
(* returns without an exception and the output file does not exist.        *)
(***************************************************************************)
C24_NothingSurvivesNoFile ==
    ( /\ pc \in { "done", "raised" }
      /\ ~out0.exists
      /\ Len(cleaned) = Len(input)
      /\ \A i \in 1..Len(cleaned) : AllMissing(i) )
    => /\ pc = "done"
       /\ raised = "none"
       /\ ~out.exists
       /\ writes = <<>>

\* A finished run of three batches, each of one all-missing row, into a
\* fresh path.
C24_Witness ==
    /\ pc = "done"
    /\ ~out0.exists
    /\ Len(input) = 3
    /\ Len(batches) = 3
    /\ \A i \in 1..3 : AllMissing(i)
    /\ ~out.exists

(***************************************************************************)
(* C25.  Through main with --overwrite, an output file that existed is     *)
(* removed before clean_csv starts: clean_csv finds no file, and after a   *)
(* run that has written at least one row the file is the header line       *)
(* followed by the rows of this run only.                                  *)
(***************************************************************************)
C25_MainOverwriteReplaces ==
    (entry = "main" /\ overwrite /\ out_entry.exists /\ pc \in { "loop", "done" }) =>
        /\ ~out0.exists
        /\ writes # <<>> => out.lines = <<NormHeader>> \o WrittenLines
        /\ writes = <<>> => ~out.exists

\* A finished run through main with --overwrite over an existing file that
\* wrote two batches.
C25_Witness ==
    /\ entry = "main"
    /\ overwrite
    /\ out_entry.exists
    /\ pc = "done"
    /\ Len(writes) = 2
    /\ out.lines[1] = NormHeader

(***************************************************************************)
(* C26.  Through main without --overwrite, an output file that existed is  *)
(* removed before cleaning: clean_csv finds no file, and the rows of this  *)
(* run are never appended to the old content.                              *)
(***************************************************************************)
C26_MainWithoutOverwriteRemoves ==
    (entry = "main" /\ ~overwrite /\ out_entry.exists /\ pc \in { "loop", "done" }) =>
        /\ ~out0.exists
        /\ ~IsPrefix(out_entry.lines, out.lines)

(***************************************************************************)
(* C27.  save_to_csv_chunked: for every DataFrame, the empty one included, *)
(* and every positive chunk size, once the call has returned the target    *)
(* file is one header line followed by every row of the DataFrame once, in *)
(* DataFrame order, whatever the file held before the call.                *)
(***************************************************************************)
C27_SaveChunkedWritesFrame ==
    (pc = "save_done" /\ chunk_size > 0) =>
        filepath.lines = <<frame.columns>> \o FormatRows(frame)

(***************************************************************************)
(* C28.  A run of clean_csv terminates, and when it has, every input row   *)
(* has been processed in exactly one batch: the batches are consecutive    *)
(* ranges of the input in file order, each of chunk_size rows except the   *)
(* last, which may hold fewer, and each was processed once.                *)
(***************************************************************************)
\* The batches processed are the consecutive ranges of chunk_size rows of
\* the input read so far.
BatchesInOrder ==
    /\ \A k \in 1..Len(batches) :
          /\ batches[k].first = (k - 1) * chunk_size + 1
          /\ batches[k].last = Min(k * chunk_size, Len(input))
    /\ batches # <<>> => pos = batches[Len(batches)].last
    /\ Len(cleaned) = pos

C28_TerminatesBatched ==
    /\ <>(pc = "done")
    /\ [](BatchesInOrder)
    /\ [](pc = "done" =>
            /\ pos = Len(input)
            /\ batches # <<>>
            /\ \A k \in 1..(Len(batches) - 1) :
                  batches[k].last - batches[k].first + 1 = chunk_size
            /\ \A i \in 1..Len(input) :
                  Cardinality({ k \in 1..Len(batches) :
                                  batches[k].first <= i /\ i <= batches[k].last }) = 1)

\* A finished run that read three rows in batches of two: a full batch,
\* then the last one with a single row.
C28_Witness ==
    /\ pc = "done"
    /\ chunk_size = 2
    /\ Len(input) = 3
    /\ Len(batches) = 2
    /\ batches[2].first = 3
    /\ batches[2].last = 3

=============================================================================
